---- MODULE Spec2Model ----
(***************************************************************************)
(* State-machine model of the two chat widgets of CA-Chatbot:              *)
(*   CAChatbotWidget  (ca-chatbot-widget.js)                               *)
(*   CAEmbedWidget    (ca-chatbot-embed.js, src/unnamed/part_003)          *)
(* One step of the model is one callback of the browser's event loop: a    *)
(* user-input handler, or the continuation of an async function after one  *)
(* of its awaits (fetch(...) or response.json()).                          *)
(***************************************************************************)
EXTENDS Integers, Sequences, FiniteSets, TLC

VARIABLES
  widget,            \* which class the page instantiated (widget.js 618, embed 371)
  sessionId,         \* this.sessionId (widget.js 10, embed 248)
  isOpen,            \* this.isOpen (widget.js 11, embed 246)
  isLoading,         \* this.isLoading (widget.js 12, embed 247)
  webSearchEnabled,  \* this.webSearchEnabled (widget.js 9), CONFIG.webSearchEnabled (embed 14)
  inputValue,        \* value of the textarea, a sequence of characters (widget.js 385, embed 228)
  sendDisabled,      \* disabled property of the send button (widget.js 390, embed 233)
  typingShown,       \* the #ca-typing indicator is displayed (widget.js 371)
  messages,          \* children of the messages container, in document order
                     \* (widget.js 361, embed 219)
  connectionStatus,  \* text of #ca-connection-status (widget.js 399)
  chats,             \* the suspended calls of sendMessage, oldest first: the
                     \* await each is at and the POST body it sent (widget.js 584-596)
  chatPosts,         \* number of chat POSTs issued so far (widget.js 584)
  probes,            \* one entry per call of checkAPIHealth: pending or done
                     \* (widget.js 496-511)
  lastEvent,         \* the kind of callback that ran last: the constructor, a
                     \* listener calling sendMessage, another listener, the
                     \* continuation of an async method, or a run of the
                     \* embed script ("navigation" before anything ran)
  CAChatbotLoaded,   \* window.CAChatbotLoaded (embed 19-21)
  readyState,        \* document.readyState (embed 254)
  scriptRuns,        \* number of times the page's widget script has been
                     \* executed (the embed script, or ca-chatbot-widget.js)
  embedWidgets,      \* number of CAEmbedWidget objects constructed (embed 370)
  createPending,     \* DOMContentLoaded listeners registered by init (embed 255)
  widgetMarkup,      \* number of times create() appended widgetHTML to
                     \* document.body (embed 263-265)
  bootListeners,     \* DOMContentLoaded listeners registered by
                     \* ca-chatbot-widget.js and not yet run (widget.js 615)
  bootTimers,        \* setTimeout callbacks of that listener waiting to
                     \* run (widget.js 617)
  webSearchActive    \* #ca-web-search-toggle has the class active
                     \* (widget.js 347, 476, 479)

\* the state of the page that the scripts' bootstraps read and write
page == <<CAChatbotLoaded, readyState, scriptRuns, embedWidgets, createPending,
          widgetMarkup, bootListeners, bootTimers>>

vars == <<widget, sessionId, isOpen, isLoading, webSearchEnabled, inputValue,
          sendDisabled, typingShown, messages, connectionStatus, chats,
          chatPosts, probes, lastEvent, page, webSearchActive>>

----------------------------------------------------------------------------
(* Bounds *)

\* chat POSTs one run issues
MaxSends == 2

\* executions of the embed script on one page
MaxScriptRuns == 2

----------------------------------------------------------------------------
(* Values *)

Main == "CAChatbotWidget"
Embed == "CAEmbedWidget"

\* the JavaScript value undefined (a missing property, an omitted argument)
Undefined == "<undefined>"

Whitespace == {" "}

\* texts the user leaves in the textarea: empty, blank, and one that trim shortens
Inputs == {<< >>, <<" ">>, <<" ", "a", " ">>}

SessionIds == {"session_1_abc"}

\* parsed JSON bodies a server may answer with; a JavaScript object is a
\* record holding exactly the properties present
JsonNull == [jsonNull |-> TRUE]

Sources4 ==
  << [type |-> "web", url |-> "https://gst.gov.in", title |-> "GST portal"],
     [type |-> "document", source |-> "gst_act.pdf"],
     [type |-> "web", title |-> "no url"],
     [type |-> "document", source |-> "fourth.pdf"] >>

\* bodies answered to POST /api/chat: replies with no source, with more
\* sources than are shown, with fewer and with no sources property, and
\* bodies without a reply: with a detail text, an empty one, or none
ChatBodies ==
  { JsonNull,
    [response |-> "GST is...", sources |-> << >>],
    [response |-> "PAN is...", sources |-> Sources4],
    [response |-> "TDS is...", sources |-> SubSeq(Sources4, 2, 3)],
    [response |-> "GST is..."],
    [detail |-> "Error processing request"],
    [detail |-> ""],
    [session_id |-> "session_1_abc"] }

\* bodies answered to GET /health
HealthBodies ==
  { JsonNull,
    [status |-> "healthy"],
    [status |-> "degraded"],
    [detail |-> "Not Found"] }

----------------------------------------------------------------------------
(* JavaScript helpers *)

\* obj.name: undefined when the property is absent
Get(obj, name) == IF name \in DOMAIN obj THEN obj[name] ELSE Undefined

\* a property read from null throws a TypeError
ThrowsOnRead(data) == data = JsonNull

\* truthiness of a string-valued or missing property
Truthy(v) == v # Undefined /\ v # ""

\* `${v}` inside a template literal
Interpolate(v) == IF v = Undefined THEN "undefined" ELSE v

\* a || b
OrElse(a, b) == IF Truthy(a) THEN a ELSE b

RECURSIVE TrimStart(_)
TrimStart(s) ==
  IF s # << >> /\ Head(s) \in Whitespace THEN TrimStart(Tail(s)) ELSE s

RECURSIVE TrimEnd(_)
TrimEnd(s) ==
  IF s # << >> /\ s[Len(s)] \in Whitespace
    THEN TrimEnd(SubSeq(s, 1, Len(s) - 1))
    ELSE s

\* String.prototype.trim
Trim(s) == TrimEnd(TrimStart(s))

\* a slice that keeps the whole array
Slice_Whole(s, n) == s

\* Array.prototype.slice(0, n)
Slice(s, n) == SubSeq(s, 1, IF Len(s) < n THEN Len(s) ELSE n)

\* messages.removeChild(messages.lastElementChild)
RemoveLastChild(s) == SubSeq(s, 1, Len(s) - 1)

----------------------------------------------------------------------------
(* Rendering *)

SourcesShown == 3

NoSources == [block |-> FALSE, items |-> << >>]

\* the sources argument of addMessage: omitted, or the array data.sources
SourcesArg(data) ==
  IF "sources" \in DOMAIN data
    THEN [defined |-> TRUE, list |-> data.sources]
    ELSE [defined |-> FALSE, list |-> << >>]

SourcesOmitted == [defined |-> FALSE, list |-> << >>]

\* a rendering that links every web source, with or without a url
SourceItem_LinkByTypeOnly(source) ==
  IF Get(source, "type") = "web"
    THEN [link |-> TRUE, href |-> Interpolate(Get(source, "url")),
          text |-> Interpolate(Get(source, "title"))]
    ELSE [link |-> FALSE, href |-> "",
          text |-> OrElse(Get(source, "source"), "Document")]

SourceItem(source) ==
  IF Get(source, "type") = "web" /\ Truthy(Get(source, "url"))
    THEN [link |-> TRUE, href |-> source.url,
          text |-> Interpolate(Get(source, "title"))]
    ELSE [link |-> FALSE, href |-> "",
          text |-> OrElse(Get(source, "source"), "Document")]

\* a rendering without the test for an empty list
createSourcesHTML_NoEmptyTest(sources) ==
  IF ~sources.defined
    THEN NoSources
    ELSE [block |-> TRUE,
          items |-> [i \in 1..Len(Slice(sources.list, SourcesShown)) |->
                       SourceItem(sources.list[i])]]

createSourcesHTML(sources) ==
  IF ~sources.defined \/ Len(sources.list) = 0
    THEN NoSources
    ELSE [block |-> TRUE,
          items |-> [i \in 1..Len(Slice(sources.list, SourcesShown)) |->
                       SourceItem(sources.list[i])]]

\* the element addMessage appends to the messages container
MessageDiv(content, isUser, sources) ==
  [role |-> IF isUser THEN "user" ELSE "bot",
   content |-> content,
   sources |-> IF sources.defined THEN createSourcesHTML(sources) ELSE NoSources]

addMessage(list, content, isUser, sources) ==
  Append(list, MessageDiv(content, isUser, sources))

Greeting ==
  [role |-> "bot", content |-> <<"Hello! I'm your CA Assistant">>,
   sources |-> NoSources]

\* updateSendButton without the isLoading operand
updateSendButton_IgnoresLoading(value, loading) == Trim(value) = << >>

\* sendBtn.disabled as updateSendButton computes it
updateSendButton(value, loading) == Trim(value) = << >> \/ loading

ErrFetch == "Failed to fetch"
ErrJson == "Unexpected token"
ErrNull == "Cannot read properties of null"

OfflineNotice(errorMessage) ==
  <<"I'm currently offline. Please try again later. (", errorMessage, ")">>

\* a notice that never quotes the body
ErrorNotice_IgnoresDetail(data) ==
  <<"Sorry, I encountered an error: ", "Unknown error">>

ErrorNotice(data) ==
  <<"Sorry, I encountered an error: ", OrElse(Get(data, "detail"), "Unknown error")>>

EmbedErrorNotice == <<"Sorry, I encountered an error. Please try again.">>
EmbedOfflineNotice == <<"I'm currently offline. Please try again later.">>
Thinking == <<"Thinking...">>

\* seq without its i-th element
Remove(seq, i) == SubSeq(seq, 1, i - 1) \o SubSeq(seq, i + 1, Len(seq))

----------------------------------------------------------------------------
(* Construction *)

\* a page that carries ca-chatbot-widget.js, before the script has been
\* evaluated: no CAChatbotWidget exists and nothing of the widget is in the
\* document.  The script may be evaluated while the document is still being
\* parsed or afterwards.  The fields of the object to come read as the
\* values its constructor will give them.
InitMain ==
  /\ widget = Main
  /\ sessionId = Undefined
  /\ isOpen = FALSE
  /\ isLoading = FALSE
  /\ webSearchEnabled = TRUE
  /\ inputValue = << >>
  /\ sendDisabled = TRUE
  /\ typingShown = FALSE
  /\ messages = << >>
  /\ connectionStatus = Undefined
  /\ chats = << >>
  /\ chatPosts = 0
  /\ probes = << >>
  /\ lastEvent = "navigation"
  /\ CAChatbotLoaded = FALSE
  /\ readyState \in {"loading", "complete"}
  /\ scriptRuns = 0
  /\ embedWidgets = 0
  /\ createPending = 0
  /\ widgetMarkup = 0
  /\ bootListeners = 0
  /\ bootTimers = 0
  /\ webSearchActive = FALSE

\* a page that carries the embed script, before the script has run: no
\* CAEmbedWidget exists and nothing of the widget is in the document; the
\* script may run while the document is still being parsed or afterwards
InitEmbed ==
  /\ widget = Embed
  /\ sessionId = Undefined
  /\ isOpen = FALSE
  /\ isLoading = FALSE
  /\ webSearchEnabled = TRUE
  /\ inputValue = << >>
  /\ sendDisabled = TRUE
  /\ typingShown = FALSE
  /\ messages = << >>
  /\ connectionStatus = Undefined
  /\ chats = << >>
  /\ chatPosts = 0
  /\ probes = << >>
  /\ lastEvent = "navigation"
  /\ CAChatbotLoaded = FALSE
  /\ readyState \in {"loading", "complete"}
  /\ scriptRuns = 0
  /\ embedWidgets = 0
  /\ createPending = 0
  /\ widgetMarkup = 0
  /\ bootListeners = 0
  /\ bootTimers = 0
  /\ webSearchActive = FALSE

Init == InitMain \/ InitEmbed

----------------------------------------------------------------------------
(* CAChatbotWidget: user-input handlers *)

\* The close button, the web-search button, the textarea and the send button
\* are children of .ca-chat-interface, which is display: none unless it has
\* the class open (widget.js 61-77): the user reaches them only while isOpen.
\* The toggle button and the document's keydown listener are always
\* reachable, once the constructor has run (sessionId is set) and with it
\* createWidget and attachEventListeners.

openChat ==
  /\ isOpen' = TRUE

closeChat ==
  /\ isOpen' = FALSE

\* a toggle that can only open
toggleChat_OpensOnly == openChat

toggleChat ==
  IF isOpen THEN closeChat ELSE openChat

\* click on #ca-chat-toggle
ClickToggle ==
  /\ widget = Main
  /\ sessionId # Undefined
  /\ toggleChat
  /\ lastEvent' = "listener"
  /\ UNCHANGED <<page, webSearchActive, widget, sessionId, isLoading, webSearchEnabled, inputValue,
                 sendDisabled, typingShown, messages, connectionStatus, chats,
                 chatPosts, probes>>

\* click on #ca-chat-close
ClickClose ==
  /\ widget = Main
  /\ isOpen
  /\ closeChat
  /\ lastEvent' = "listener"
  /\ UNCHANGED <<page, webSearchActive, widget, sessionId, isLoading, webSearchEnabled, inputValue,
                 sendDisabled, typingShown, messages, connectionStatus, chats,
                 chatPosts, probes>>

\* an Escape listener that also gives up the outstanding request's flag
EscapeKey_ReleasesLoading ==
  /\ widget = Main
  /\ IF isOpen THEN closeChat /\ isLoading' = FALSE
               ELSE UNCHANGED <<isOpen, isLoading>>
  /\ lastEvent' = "listener"
  /\ UNCHANGED <<page, webSearchActive, widget, sessionId, webSearchEnabled, inputValue,
                 sendDisabled, typingShown, messages, connectionStatus, chats,
                 chatPosts, probes>>

\* keydown on document with e.key === 'Escape'
EscapeKey ==
  /\ widget = Main
  /\ sessionId # Undefined
  /\ IF isOpen THEN closeChat ELSE UNCHANGED isOpen
  /\ lastEvent' = "listener"
  /\ UNCHANGED <<page, webSearchActive, widget, sessionId, isLoading, webSearchEnabled, inputValue,
                 sendDisabled, typingShown, messages, connectionStatus, chats,
                 chatPosts, probes>>

\* a web-search button that can only switch the flag on
toggleWebSearch_EnablesOnly ==
  /\ widget = Main
  /\ isOpen
  /\ webSearchEnabled' = TRUE
  /\ webSearchActive' = TRUE
  /\ lastEvent' = "listener"
  /\ UNCHANGED <<page, widget, sessionId, isOpen, isLoading, inputValue,
                 sendDisabled, typingShown, messages, connectionStatus, chats,
                 chatPosts, probes>>

\* click on #ca-web-search-toggle: the flag is inverted, and the button
\* gets the class active when the new value is true and loses it otherwise
toggleWebSearch ==
  /\ widget = Main
  /\ isOpen
  /\ webSearchEnabled' = ~webSearchEnabled
  /\ webSearchActive' = ~webSearchEnabled
  /\ lastEvent' = "listener"
  /\ UNCHANGED <<page, widget, sessionId, isOpen, isLoading, inputValue,
                 sendDisabled, typingShown, messages, connectionStatus, chats,
                 chatPosts, probes>>

\* the user edits the textarea: the input listener runs updateSendButton
InputEvent ==
  /\ widget = Main
  /\ isOpen
  /\ \E v \in Inputs :
       /\ inputValue' = v
       /\ sendDisabled' = updateSendButton(v, isLoading)
  /\ lastEvent' = "listener"
  /\ UNCHANGED <<page, webSearchActive, widget, sessionId, isOpen, isLoading, webSearchEnabled,
                 typingShown, messages, connectionStatus, chats,
                 chatPosts, probes>>

\* a body whose session_id is generated anew for the request
ChatBody_NewSessionPerRequest(message) ==
  [message |-> message,
   web_search_enabled |-> webSearchEnabled,
   session_id |-> "session_2_xyz"]

\* a body that always asks for web search, whatever the flag says
ChatBody_WebSearchAlwaysOn(message) ==
  [message |-> message,
   web_search_enabled |-> TRUE,
   session_id |-> sessionId]

\* the body of the POST, as JSON.stringify receives it
ChatBody(message) ==
  [message |-> message,
   web_search_enabled |-> webSearchEnabled,
   session_id |-> sessionId]

\* sendMessage with the isLoading test left out of its guard
sendMessage_NoLoadingGuard ==
  LET message == Trim(inputValue) IN
  IF message = << >>
    THEN UNCHANGED <<messages, inputValue, sendDisabled, isLoading,
                     typingShown, chats, chatPosts>>
    ELSE /\ chatPosts < MaxSends
         /\ messages' = addMessage(messages, message, TRUE, SourcesOmitted)
         /\ inputValue' = << >>
         /\ sendDisabled' = updateSendButton(<< >>, isLoading)
         /\ isLoading' = TRUE
         /\ typingShown' = TRUE
         /\ chats' = Append(chats, [phase |-> "fetch", body |-> ChatBody(message)])
         /\ chatPosts' = chatPosts + 1

\* sendMessage posting and showing the input as typed, untrimmed
sendMessage_SendsRawInput ==
  LET message == Trim(inputValue) IN
  IF message = << >> \/ isLoading
    THEN UNCHANGED <<messages, inputValue, sendDisabled, isLoading,
                     typingShown, chats, chatPosts>>
    ELSE /\ chatPosts < MaxSends
         /\ messages' = addMessage(messages, inputValue, TRUE, SourcesOmitted)
         /\ inputValue' = << >>
         /\ sendDisabled' = updateSendButton(<< >>, isLoading)
         /\ isLoading' = TRUE
         /\ typingShown' = TRUE
         /\ chats' = Append(chats, [phase |-> "fetch", body |-> ChatBody(inputValue)])
         /\ chatPosts' = chatPosts + 1

\* sendMessage up to its first await: the guard, the user message, the
\* cleared input, the loading flag and the fetch of /api/chat
sendMessage ==
  LET message == Trim(inputValue) IN
  IF message = << >> \/ isLoading
    THEN UNCHANGED <<messages, inputValue, sendDisabled, isLoading,
                     typingShown, chats, chatPosts>>
    ELSE /\ chatPosts < MaxSends
         /\ messages' = addMessage(messages, message, TRUE, SourcesOmitted)
         /\ inputValue' = << >>
         /\ sendDisabled' = updateSendButton(<< >>, isLoading)
         /\ isLoading' = TRUE
         /\ typingShown' = TRUE
         /\ chats' = Append(chats, [phase |-> "fetch", body |-> ChatBody(message)])
         /\ chatPosts' = chatPosts + 1

\* click on #ca-send-btn; a disabled button dispatches no click
ClickSend ==
  /\ widget = Main
  /\ isOpen
  /\ ~sendDisabled
  /\ sendMessage
  /\ lastEvent' = "sendMessage"
  /\ UNCHANGED <<page, webSearchActive, widget, sessionId, isOpen, webSearchEnabled,
                 connectionStatus, probes>>

\* keydown on the textarea with e.key === 'Enter' && !e.shiftKey
EnterKey ==
  /\ widget = Main
  /\ isOpen
  /\ sendMessage
  /\ lastEvent' = "sendMessage"
  /\ UNCHANGED <<page, webSearchActive, widget, sessionId, isOpen, webSearchEnabled,
                 connectionStatus, probes>>

----------------------------------------------------------------------------
(* CAChatbotWidget: health probe *)

\* A call of checkAPIHealth is "pending" from its fetch until its try or
\* catch block has written the status.  Its first await resolving changes
\* nothing that the page or another callback can read (the response is a
\* local of the call), so the response's ok flag and body are drawn in the
\* step that reads them.

\* checkAPIHealth up to its first await: the fetch of /health is issued
checkAPIHealth(list) == Append(list, "pending")

\* the status test without response.ok
HealthStatus_IgnoresOk(ok, data) ==
  IF ~ThrowsOnRead(data) /\ Get(data, "status") = "healthy"
    THEN "Online"
    ELSE "Offline"

\* what a probe writes to #ca-connection-status once response.json() has
\* given `data`
HealthStatus(ok, data) ==
  IF ok /\ ~ThrowsOnRead(data) /\ Get(data, "status") = "healthy"
    THEN "Online"
    ELSE "Offline"

\* a probe whose catch block also releases the loading flag
ProbeSettles_ReleasesLoading(i, status) ==
  /\ probes[i] = "pending"
  /\ connectionStatus' = status
  /\ probes' = [probes EXCEPT ![i] = "done"]
  /\ isLoading' = FALSE
  /\ lastEvent' = "continuation"
  /\ UNCHANGED <<page, webSearchActive, widget, sessionId, isOpen, webSearchEnabled,
                 inputValue, sendDisabled, typingShown, messages, chats,
                 chatPosts>>

\* probe i ends: its try block or its catch block writes the status
ProbeSettles(i, status) ==
  /\ probes[i] = "pending"
  /\ connectionStatus' = status
  /\ probes' = [probes EXCEPT ![i] = "done"]
  /\ lastEvent' = "continuation"
  /\ UNCHANGED <<page, webSearchActive, widget, sessionId, isOpen, isLoading, webSearchEnabled,
                 inputValue, sendDisabled, typingShown, messages, chats,
                 chatPosts>>

\* await fetch(`${this.apiBase}/health`) rejects: the catch block
ProbeFetchReject ==
  /\ widget = Main
  /\ \E i \in DOMAIN probes : ProbeSettles(i, "Offline")

\* the response of probe i has the given ok flag and await response.json()
\* resolves with `data`
ProbeJson(i, ok, data) == ProbeSettles(i, HealthStatus(ok, data))

ProbeJsonResolve ==
  /\ widget = Main
  /\ \E i \in DOMAIN probes, ok \in BOOLEAN, data \in HealthBodies :
       ProbeJson(i, ok, data)

\* a response arrives and await response.json() rejects: the catch block
ProbeJsonReject ==
  /\ widget = Main
  /\ \E i \in DOMAIN probes : ProbeSettles(i, "Offline")

----------------------------------------------------------------------------
(* CAChatbotWidget: sendMessage after its awaits *)

\* a finally block that resets the flag but does not call updateSendButton
Finally_NoButtonUpdate(i, list) ==
  /\ messages' = list
  /\ isLoading' = FALSE
  /\ typingShown' = FALSE
  /\ chats' = Remove(chats, i)
  /\ lastEvent' = "continuation"
  /\ UNCHANGED <<page, webSearchActive, widget, sessionId, isOpen, webSearchEnabled, inputValue,
                 sendDisabled, connectionStatus, chatPosts>>

\* a continuation that renders its result only into an open widget
Finally_OnlyWhenOpen(i, list) ==
  /\ messages' = IF isOpen THEN list ELSE messages
  /\ isLoading' = FALSE
  /\ typingShown' = FALSE
  /\ sendDisabled' = updateSendButton(inputValue, FALSE)
  /\ chats' = Remove(chats, i)
  /\ lastEvent' = "continuation"
  /\ UNCHANGED <<page, webSearchActive, widget, sessionId, isOpen, webSearchEnabled, inputValue,
                 connectionStatus, chatPosts>>

\* Finally without the hideTyping call
Finally_KeepsTyping(i, list) ==
  /\ messages' = list
  /\ isLoading' = FALSE
  /\ sendDisabled' = updateSendButton(inputValue, FALSE)
  /\ chats' = Remove(chats, i)
  /\ lastEvent' = "continuation"
  /\ UNCHANGED <<page, webSearchActive, widget, sessionId, isOpen, webSearchEnabled, inputValue,
                 connectionStatus, chatPosts, typingShown>>

\* Finally, except that a failed exchange also marks the connection Offline
Finally_MarksOffline(i, list) ==
  /\ messages' = list
  /\ isLoading' = FALSE
  /\ typingShown' = FALSE
  /\ sendDisabled' = updateSendButton(inputValue, FALSE)
  /\ chats' = Remove(chats, i)
  /\ connectionStatus' = IF list[Len(list)].content[1] = OfflineNotice(ErrFetch)[1]
                         THEN "Offline"
                         ELSE connectionStatus
  /\ lastEvent' = "continuation"
  /\ UNCHANGED <<page, webSearchActive, widget, sessionId, isOpen, webSearchEnabled, inputValue,
                 chatPosts>>

\* the finally block of call i, after `list` has become the transcript
Finally(i, list) ==
  /\ messages' = list
  /\ isLoading' = FALSE
  /\ typingShown' = FALSE
  /\ sendDisabled' = updateSendButton(inputValue, FALSE)
  /\ chats' = Remove(chats, i)
  /\ lastEvent' = "continuation"
  /\ UNCHANGED <<page, webSearchActive, widget, sessionId, isOpen, webSearchEnabled, inputValue,
                 connectionStatus, chatPosts>>

\* a catch block that swallows the error: nothing is appended
Catch_Silent(i, errorMessage) ==
  /\ Finally(i, messages)
  /\ UNCHANGED probes

\* a catch block that removes the last child before it appends the notice,
\* as the embed widget's does
Catch_ReplacesLast(i, errorMessage) ==
  /\ Finally(i, addMessage(RemoveLastChild(messages), OfflineNotice(errorMessage),
                           FALSE, SourcesOmitted))
  /\ UNCHANGED probes

\* a catch block that reports the failure but skips the finally block's reset
\* of the loading flag
Catch_NoRelease(i, errorMessage) ==
  /\ messages' = addMessage(messages, OfflineNotice(errorMessage), FALSE,
                            SourcesOmitted)
  /\ typingShown' = FALSE
  /\ sendDisabled' = updateSendButton(inputValue, isLoading)
  /\ chats' = Remove(chats, i)
  /\ lastEvent' = "continuation"
  /\ UNCHANGED <<page, webSearchActive, widget, sessionId, isOpen, isLoading, webSearchEnabled,
                 inputValue, connectionStatus, chatPosts, probes>>

\* the catch block of call i, then finally
Catch(i, errorMessage) ==
  /\ Finally(i, addMessage(messages, OfflineNotice(errorMessage), FALSE,
                           SourcesOmitted))
  /\ UNCHANGED probes

\* a continuation that releases the loading flag as soon as the response's
\* headers arrive, before the body is read
ChatFetchResolve_ReleasesLoading ==
  /\ widget = Main
  /\ \E i \in DOMAIN chats, ok \in BOOLEAN :
       /\ chats[i].phase = "fetch"
       /\ chats' = [chats EXCEPT ![i] =
                      [phase |-> "json", ok |-> ok, body |-> chats[i].body]]
  /\ isLoading' = FALSE
  /\ lastEvent' = "continuation"
  /\ UNCHANGED <<page, webSearchActive, widget, sessionId, isOpen, webSearchEnabled,
                 inputValue, sendDisabled, typingShown, messages,
                 connectionStatus, chatPosts, probes>>

\* await fetch(`${this.apiBase}/api/chat`, ...) resolves with a response
ChatFetchResolve ==
  /\ widget = Main
  /\ \E i \in DOMAIN chats, ok \in BOOLEAN :
       /\ chats[i].phase = "fetch"
       /\ chats' = [chats EXCEPT ![i] =
                      [phase |-> "json", ok |-> ok, body |-> chats[i].body]]
  /\ lastEvent' = "continuation"
  /\ UNCHANGED <<page, webSearchActive, widget, sessionId, isOpen, isLoading, webSearchEnabled,
                 inputValue, sendDisabled, typingShown, messages,
                 connectionStatus, chatPosts, probes>>

\* await fetch(...) rejects
ChatFetchReject ==
  /\ widget = Main
  /\ \E i \in DOMAIN chats :
       /\ chats[i].phase = "fetch"
       /\ Catch(i, ErrFetch)

\* a try block that does not refresh the status after a reply
ChatResponse_NoProbe(i, ok, data) ==
  IF ThrowsOnRead(data)
    THEN Catch(i, ErrNull)
    ELSE IF ok
      THEN /\ Finally(i, addMessage(messages, <<Interpolate(Get(data, "response"))>>,
                                    FALSE, SourcesArg(data)))
           /\ UNCHANGED probes
      ELSE /\ Finally(i, addMessage(messages, ErrorNotice(data), FALSE,
                                    SourcesOmitted))
           /\ UNCHANGED probes

\* a try block with no else branch: a non-2xx answer appends nothing
ChatResponse_NoElse(i, ok, data) ==
  IF ThrowsOnRead(data)
    THEN Catch(i, ErrNull)
    ELSE IF ok
      THEN /\ Finally(i, addMessage(messages, <<Interpolate(Get(data, "response"))>>,
                                    FALSE, SourcesArg(data)))
           /\ probes' = checkAPIHealth(probes)
      ELSE /\ Finally(i, messages)
           /\ UNCHANGED probes

\* the rest of the try block of call i once response.json() has given `data`
ChatResponse(i, ok, data) ==
  IF ThrowsOnRead(data)
    THEN Catch(i, ErrNull)
    ELSE IF ok
      THEN /\ Finally(i, addMessage(messages, <<Interpolate(Get(data, "response"))>>,
                                    FALSE, SourcesArg(data)))
           /\ probes' = checkAPIHealth(probes)
      ELSE /\ Finally(i, addMessage(messages, ErrorNotice(data), FALSE,
                                    SourcesOmitted))
           /\ UNCHANGED probes

\* await response.json() of call i resolves with `data`
ChatJson(i, data) ==
  /\ chats[i].phase = "json"
  /\ ChatResponse(i, chats[i].ok, data)

ChatJsonResolve ==
  /\ widget = Main
  /\ \E i \in DOMAIN chats, data \in ChatBodies : ChatJson(i, data)

\* await response.json() rejects
ChatJsonReject ==
  /\ widget = Main
  /\ \E i \in DOMAIN chats :
       /\ chats[i].phase = "json"
       /\ Catch(i, ErrJson)

----------------------------------------------------------------------------
(* CAEmbedWidget *)

\* As in the other widget, the controls inside .ca-embed-interface take user
\* input only while it has the class open (embed 56-73); the toggle button
\* exists once create() has inserted the markup.

\* n calls of create(): each appends widgetHTML to document.body and attaches
\* the listeners; getElementById finds the elements of the first copy, whose
\* messages container holds the greeting
create(n) ==
  /\ widgetMarkup' = widgetMarkup + n
  /\ messages' = IF n > 0 /\ widgetMarkup = 0 THEN <<Greeting>> ELSE messages

\* a constructor whose init() always waits for DOMContentLoaded, without the
\* test of document.readyState
EmbedConstructor_AlwaysDefers ==
  /\ embedWidgets' = embedWidgets + 1
  /\ isOpen' = FALSE
  /\ isLoading' = FALSE
  /\ sessionId' \in SessionIds
  /\ createPending' = createPending + 1
  /\ UNCHANGED <<widgetMarkup, messages>>

\* new CAEmbedWidget(): the fields, then init(), which calls create() at once
\* or leaves it to a DOMContentLoaded listener
EmbedConstructor ==
  /\ embedWidgets' = embedWidgets + 1
  /\ isOpen' = FALSE
  /\ isLoading' = FALSE
  /\ sessionId' \in SessionIds
  /\ IF readyState = "loading"
       THEN /\ createPending' = createPending + 1
            /\ UNCHANGED <<widgetMarkup, messages>>
       ELSE /\ create(1)
            /\ UNCHANGED createPending

\* the embed script without the test of window.CAChatbotLoaded
ExecuteEmbedScript_NoGuard ==
  /\ widget = Embed
  /\ scriptRuns < MaxScriptRuns
  /\ scriptRuns' = scriptRuns + 1
  /\ CAChatbotLoaded' = TRUE
  /\ EmbedConstructor
  /\ lastEvent' = "script"
  /\ UNCHANGED <<widget, webSearchEnabled, inputValue, sendDisabled,
                 typingShown, connectionStatus, chats, chatPosts, probes,
                 readyState, bootListeners, bootTimers, webSearchActive>>

\* one execution of the embed script: it returns at once when
\* window.CAChatbotLoaded is set, else sets it and constructs the widget
ExecuteEmbedScript ==
  /\ widget = Embed
  /\ scriptRuns < MaxScriptRuns
  /\ scriptRuns' = scriptRuns + 1
  /\ IF CAChatbotLoaded
       THEN UNCHANGED <<CAChatbotLoaded, embedWidgets, isOpen, isLoading,
                        sessionId, createPending, widgetMarkup, messages>>
       ELSE /\ CAChatbotLoaded' = TRUE
            /\ EmbedConstructor
  /\ lastEvent' = "script"
  /\ UNCHANGED <<widget, webSearchEnabled, inputValue, sendDisabled,
                 typingShown, connectionStatus, chats, chatPosts, probes,
                 readyState, bootListeners, bootTimers, webSearchActive>>

\* the document finishes parsing and DOMContentLoaded is dispatched, once:
\* the listeners registered so far run.  Those of CAEmbedWidget.init call
\* create(); those of ca-chatbot-widget.js start a timer each.
DOMContentLoaded ==
  /\ readyState = "loading"
  /\ readyState' = "complete"
  /\ create(createPending)
  /\ createPending' = 0
  /\ bootTimers' = bootTimers + bootListeners
  /\ bootListeners' = 0
  /\ lastEvent' = "listener"
  /\ UNCHANGED <<widget, sessionId, isOpen, isLoading, webSearchEnabled,
                 inputValue, sendDisabled, typingShown, connectionStatus,
                 chats, chatPosts, probes, CAChatbotLoaded, scriptRuns,
                 embedWidgets, webSearchActive>>

\* click on #ca-embed-toggle: toggle(), which calls open() or close()
EmbedToggle ==
  /\ widget = Embed
  /\ widgetMarkup > 0
  /\ isOpen' = ~isOpen
  /\ lastEvent' = "listener"
  /\ UNCHANGED <<page, webSearchActive, widget, sessionId, isLoading, webSearchEnabled, inputValue,
                 sendDisabled, typingShown, messages, connectionStatus, chats,
                 chatPosts, probes>>

\* a close() that also resets the conversation to the greeting
EmbedClose_ResetsTranscript ==
  /\ widget = Embed
  /\ isOpen
  /\ isOpen' = FALSE
  /\ messages' = <<Greeting>>
  /\ lastEvent' = "listener"
  /\ UNCHANGED <<page, webSearchActive, widget, sessionId, isLoading, webSearchEnabled, inputValue,
                 sendDisabled, typingShown, connectionStatus, chats,
                 chatPosts, probes>>

\* click on #ca-embed-close: close()
EmbedClose ==
  /\ widget = Embed
  /\ isOpen
  /\ isOpen' = FALSE
  /\ lastEvent' = "listener"
  /\ UNCHANGED <<page, webSearchActive, widget, sessionId, isLoading, webSearchEnabled, inputValue,
                 sendDisabled, typingShown, messages, connectionStatus, chats,
                 chatPosts, probes>>

\* the user edits #ca-embed-textarea: the input listener runs updateSendButton
EmbedInputEvent ==
  /\ widget = Embed
  /\ isOpen
  /\ \E v \in Inputs :
       /\ inputValue' = v
       /\ sendDisabled' = updateSendButton(v, isLoading)
  /\ lastEvent' = "listener"
  /\ UNCHANGED <<page, webSearchActive, widget, sessionId, isOpen, isLoading, webSearchEnabled,
                 typingShown, messages, connectionStatus, chats,
                 chatPosts, probes>>

\* the embed's sendMessage testing the raw value instead of the trimmed one
EmbedSendMessage_NoTrim ==
  LET message == Trim(inputValue) IN
  IF inputValue = << >> \/ isLoading
    THEN UNCHANGED <<messages, inputValue, sendDisabled, isLoading, chats,
                     chatPosts>>
    ELSE /\ chatPosts < MaxSends
         /\ messages' = addMessage(addMessage(messages, message, TRUE, SourcesOmitted),
                                   Thinking, FALSE, SourcesOmitted)
         /\ inputValue' = << >>
         /\ sendDisabled' = updateSendButton(<< >>, isLoading)
         /\ isLoading' = TRUE
         /\ chats' = Append(chats, [phase |-> "fetch", body |-> ChatBody(message)])
         /\ chatPosts' = chatPosts + 1

\* CAEmbedWidget.sendMessage up to its first await
EmbedSendMessage ==
  LET message == Trim(inputValue) IN
  IF message = << >> \/ isLoading
    THEN UNCHANGED <<messages, inputValue, sendDisabled, isLoading, chats,
                     chatPosts>>
    ELSE /\ chatPosts < MaxSends
         /\ messages' = addMessage(addMessage(messages, message, TRUE, SourcesOmitted),
                                   Thinking, FALSE, SourcesOmitted)
         /\ inputValue' = << >>
         /\ sendDisabled' = updateSendButton(<< >>, isLoading)
         /\ isLoading' = TRUE
         /\ chats' = Append(chats, [phase |-> "fetch", body |-> ChatBody(message)])
         /\ chatPosts' = chatPosts + 1

\* click on #ca-embed-send; a disabled button dispatches no click
EmbedClickSend ==
  /\ widget = Embed
  /\ isOpen
  /\ ~sendDisabled
  /\ EmbedSendMessage
  /\ lastEvent' = "sendMessage"
  /\ UNCHANGED <<page, webSearchActive, widget, sessionId, isOpen, webSearchEnabled, typingShown,
                 connectionStatus, probes>>

\* keydown on the textarea with e.key === 'Enter' && !e.shiftKey
EmbedEnterKey ==
  /\ widget = Embed
  /\ isOpen
  /\ EmbedSendMessage
  /\ lastEvent' = "sendMessage"
  /\ UNCHANGED <<page, webSearchActive, widget, sessionId, isOpen, webSearchEnabled, typingShown,
                 connectionStatus, probes>>

\* the finally block of call i, after `list` has become the transcript
EmbedFinally(i, list) ==
  /\ messages' = list
  /\ isLoading' = FALSE
  /\ sendDisabled' = updateSendButton(inputValue, FALSE)
  /\ chats' = Remove(chats, i)
  /\ lastEvent' = "continuation"
  /\ UNCHANGED <<page, webSearchActive, widget, sessionId, isOpen, webSearchEnabled, inputValue,
                 typingShown, connectionStatus, chatPosts, probes>>

\* the catch block of call i run on the transcript `list`, then finally
EmbedCatch(i, list) ==
  EmbedFinally(i, addMessage(RemoveLastChild(list), EmbedOfflineNotice, FALSE,
                             SourcesOmitted))

\* await fetch(`${CONFIG.apiBase}/api/chat`, ...) resolves with a response
EmbedFetchResolve ==
  /\ widget = Embed
  /\ \E i \in DOMAIN chats, ok \in BOOLEAN :
       /\ chats[i].phase = "fetch"
       /\ chats' = [chats EXCEPT ![i] =
                      [phase |-> "json", ok |-> ok, body |-> chats[i].body]]
  /\ lastEvent' = "continuation"
  /\ UNCHANGED <<page, webSearchActive, widget, sessionId, isOpen, isLoading, webSearchEnabled,
                 inputValue, sendDisabled, typingShown, messages,
                 connectionStatus, chatPosts, probes>>

\* await fetch(...) rejects
EmbedFetchReject ==
  /\ widget = Embed
  /\ \E i \in DOMAIN chats :
       /\ chats[i].phase = "fetch"
       /\ EmbedCatch(i, messages)

\* the rest of the try block of call i once response.json() has given
\* `data`: the placeholder is removed first, then data.response is read
EmbedResponse(i, ok, data) ==
  LET removed == RemoveLastChild(messages) IN
  IF ok
    THEN IF ThrowsOnRead(data)
           THEN EmbedCatch(i, removed)
           ELSE EmbedFinally(i, addMessage(removed,
                                           <<Interpolate(Get(data, "response"))>>,
                                           FALSE, SourcesOmitted))
    ELSE EmbedFinally(i, addMessage(removed, EmbedErrorNotice, FALSE,
                                    SourcesOmitted))

\* await response.json() of call i resolves with `data`
EmbedJson(i, data) ==
  /\ chats[i].phase = "json"
  /\ EmbedResponse(i, chats[i].ok, data)

EmbedJsonResolve ==
  /\ widget = Embed
  /\ \E i \in DOMAIN chats, data \in ChatBodies : EmbedJson(i, data)

\* await response.json() rejects
EmbedJsonReject ==
  /\ widget = Embed
  /\ \E i \in DOMAIN chats :
       /\ chats[i].phase = "json"
       /\ EmbedCatch(i, messages)

----------------------------------------------------------------------------
(* Specification *)

----------------------------------------------------------------------------
(* CAChatbotWidget: bootstrap *)

\* new CAChatbotWidget({webSearchEnabled: webSearchOption}): the fields,
\* then init(): the markup of createWidget, the listeners, and the first
\* health probe, suspended at its fetch
constructor(webSearchOption) ==
  /\ webSearchEnabled' = (webSearchOption # FALSE)
  /\ sessionId' \in SessionIds
  /\ isOpen' = FALSE
  /\ isLoading' = FALSE
  /\ messages' = <<Greeting>>
  /\ inputValue' = << >>
  /\ sendDisabled' = TRUE
  /\ typingShown' = FALSE
  /\ connectionStatus' = "Connecting..."
  /\ webSearchActive' = FALSE
  /\ probes' = checkAPIHealth(probes)

\* ca-chatbot-widget.js is evaluated, once per page: the class is declared
\* and a listener for DOMContentLoaded is registered, whatever the
\* document's readyState
EvaluateWidgetScript ==
  /\ widget = Main
  /\ scriptRuns = 0
  /\ scriptRuns' = 1
  /\ bootListeners' = bootListeners + 1
  /\ lastEvent' = "script"
  /\ UNCHANGED <<widget, sessionId, isOpen, isLoading, webSearchEnabled,
                 inputValue, sendDisabled, typingShown, messages,
                 connectionStatus, chats, chatPosts, probes,
                 CAChatbotLoaded, readyState, embedWidgets, createPending,
                 widgetMarkup, bootTimers, webSearchActive>>

\* the timer that the DOMContentLoaded listener started expires: the widget
\* is constructed with webSearchEnabled: true
BootTimerFires ==
  /\ widget = Main
  /\ bootTimers > 0
  /\ bootTimers' = bootTimers - 1
  /\ constructor(TRUE)
  /\ lastEvent' = "constructor"
  /\ UNCHANGED <<widget, chats, chatPosts, CAChatbotLoaded, readyState,
                 scriptRuns, embedWidgets, createPending, widgetMarkup,
                 bootListeners>>

Next ==
  \/ ClickToggle
  \/ ClickClose
  \/ EscapeKey
  \/ toggleWebSearch
  \/ InputEvent
  \/ ClickSend
  \/ EnterKey
  \/ ChatFetchResolve
  \/ ChatFetchReject
  \/ ChatJsonResolve
  \/ ChatJsonReject
  \/ ProbeFetchReject
  \/ ProbeJsonResolve
  \/ ProbeJsonReject
  \/ EvaluateWidgetScript
  \/ BootTimerFires
  \/ ExecuteEmbedScript
  \/ DOMContentLoaded
  \/ EmbedToggle
  \/ EmbedClose
  \/ EmbedInputEvent
  \/ EmbedClickSend
  \/ EmbedEnterKey
  \/ EmbedFetchResolve
  \/ EmbedFetchReject
  \/ EmbedJsonResolve
  \/ EmbedJsonReject

Spec == Init /\ [][Next]_vars

\* a step in which a suspended call of sendMessage runs on
ChatContinues ==
  \/ ChatFetchResolve
  \/ ChatFetchReject
  \/ ChatJsonResolve
  \/ ChatJsonReject
  \/ EmbedFetchResolve
  \/ EmbedFetchReject
  \/ EmbedJsonResolve
  \/ EmbedJsonReject

\* Spec for runs in which every chat request issued is eventually answered
\* or fails, and every body is eventually read or fails to parse
FairSpec == Spec /\ WF_vars(ChatContinues)

----------------------------------------------------------------------------
(* Properties *)

\* the page's widget object exists: its constructor has assigned sessionId
Constructed == sessionId # Undefined

\* a failure notice of either widget, as opposed to reply text
FailurePrefixes ==
  { "I'm currently offline. Please try again later. (",
    "Sorry, I encountered an error: ",
    "Sorry, I encountered an error. Please try again.",
    "I'm currently offline. Please try again later." }

IsFailureNotice(m) == m.role = "bot" /\ m.content[1] \in FailurePrefixes

IsPrefix(s, t) == Len(s) <= Len(t) /\ SubSeq(t, 1, Len(s)) = s

\* C1: in both widgets at most one chat POST is outstanding in every
\* reachable state, and isLoading is true exactly in the states in which a
\* call of sendMessage is suspended on its request (fetch or body read)
C1_SingleOutstanding ==
  /\ Len(chats) <= 1
  /\ isLoading <=> Len(chats) = 1

\* a send was attempted, and refused, while a request was outstanding
C1_Witness ==
  /\ lastEvent = "sendMessage"
  /\ Trim(inputValue) # << >>
  /\ isLoading
  /\ Len(chats) = 1

Last(s) == s[Len(s)]

\* a step in which a call of sendMessage runs to its end
ChatSettles == Len(chats') < Len(chats)

\* a send attempt made when the last exchange has failed, nothing is
\* outstanding and the input holds text
SendAfterFailure ==
  /\ lastEvent' = "sendMessage"
  /\ chats = << >>
  /\ IsFailureNotice(Last(messages))
  /\ Trim(inputValue) # << >>

\* the attempt is admitted: the user message is appended and a POST issued
Admitted ==
  /\ Len(messages') > Len(messages)
  /\ SubSeq(messages', 1, Len(messages)) = messages
  /\ messages'[Len(messages) + 1].role = "user"
  /\ messages'[Len(messages) + 1].content = Trim(inputValue)
  /\ Len(chats') = 1
  /\ chats'[1].phase = "fetch"
  /\ chatPosts' = chatPosts + 1

\* C2: every step that settles a chat request, whatever its outcome, leaves
\* isLoading false; the send attempted after a failed exchange with text in
\* the input is admitted; and when every request is eventually answered the
\* loading state always ends
C2_LoadingReleased ==
  /\ [][ChatSettles => ~isLoading']_vars
  /\ [][SendAfterFailure => Admitted]_vars
  /\ (isLoading ~> ~isLoading)

\* a second request is outstanding right after the first exchange failed
C2_Witness ==
  /\ Len(messages) >= 4
  /\ IsFailureNotice(messages[3])
  /\ messages[4].role = "user"
  /\ isLoading
  /\ chatPosts = 2

\* the chat exchange of the one suspended call ends in this step by a fetch
\* rejection, a non-2xx answer or a body that does not parse
ExchangeFails ==
  /\ Len(chats) = 1
  /\ ChatSettles
  /\ \/ chats[1].phase = "fetch"
     \/ chats[1].phase = "json" /\ ~chats[1].ok
     \/ chats[1].phase = "json" /\ ChatJsonReject

\* C3: in CAChatbotWidget a failed exchange leaves, for its send, the user
\* message followed by exactly one assistant failure notice: the step that
\* settles it appends the notice right after the user message and touches
\* nothing else of the transcript
C3_FailureLeavesUserAndNotice ==
  [][(widget = Main /\ ExchangeFails) =>
       /\ Last(messages).role = "user"
       /\ Last(messages).content = chats[1].body.message
       /\ Len(messages') = Len(messages) + 1
       /\ SubSeq(messages', 1, Len(messages)) = messages
       /\ IsFailureNotice(Last(messages'))]_vars

\* one send, refused by the server with a detail text, has settled
C3_Witness ==
  /\ widget = Main
  /\ chats = << >>
  /\ chatPosts = 1
  /\ Len(messages) = 3
  /\ messages[2].role = "user"
  /\ messages[3].content = ErrorNotice([detail |-> "Error processing request"])

\* C4: in CAChatbotWidget, once the N sends admitted so far have all
\* settled, they have added exactly 2N entries after the greeting, user and
\* assistant entries alternating, a user entry first
C4_TwoPerSendAlternating ==
  (widget = Main /\ Constructed /\ chats = << >>) =>
    /\ Len(messages) = 1 + 2 * chatPosts
    /\ \A k \in 1..chatPosts :
         /\ messages[2 * k].role = "user"
         /\ messages[2 * k + 1].role = "bot"

\* two sends have settled, the first failed and the second succeeded
C4_Witness ==
  /\ widget = Main
  /\ chats = << >>
  /\ chatPosts = 2
  /\ Len(messages) = 5
  /\ IsFailureNotice(messages[3])
  /\ ~IsFailureNotice(messages[5])

\* C5: the transcript of CAChatbotWidget is append-only: in every step the
\* old transcript is a prefix of the new one
C5_AppendOnly ==
  [][widget = Main => IsPrefix(messages, messages')]_vars

\* the transcript has grown by two exchanges and the chat was closed since
C5_Witness ==
  /\ widget = Main
  /\ Len(messages) = 5
  /\ ~isOpen
  /\ lastEvent = "listener"

\* C6: in both widgets a send attempt made while isLoading is true, or with
\* input that is empty once trimmed, appends nothing, issues no request and
\* leaves isLoading and the input text as they were
C6_RefusedSendIsNoOp ==
  [][(lastEvent' = "sendMessage" /\ (isLoading \/ Trim(inputValue) = << >>)) =>
       UNCHANGED <<messages, chats, chatPosts, isLoading, inputValue>>]_vars

\* the embed widget has refused a send of typed text behind its placeholder
C6_Witness ==
  /\ widget = Embed
  /\ lastEvent = "sendMessage"
  /\ isLoading
  /\ Trim(inputValue) # << >>
  /\ Last(messages).content = Thinking
  /\ chatPosts = 1

\* C7: in every reachable state of CAChatbotWidget isLoading implies that
\* the send button is disabled
C7_LoadingDisablesSend ==
  (widget = Main /\ isLoading) => sendDisabled

\* text was typed while the request was in flight
C7_Witness ==
  /\ widget = Main
  /\ isLoading
  /\ lastEvent = "listener"
  /\ Trim(inputValue) # << >>
  /\ sendDisabled

\* the fetch of the one suspended call of CAChatbotWidget rejects in this step
TransportFailureSettles ==
  /\ widget = Main
  /\ Len(chats) = 1
  /\ chats[1].phase = "fetch"
  /\ chats' = << >>

\* C8 as stated: once a send whose request was rejected has settled,
\* isLoading is false and the send button is not disabled
C8_Original ==
  [][TransportFailureSettles => (~isLoading' /\ ~sendDisabled')]_vars

\* C8: once a send whose request was rejected has settled, isLoading is
\* false and the send button is disabled exactly when the input field is
\* empty after trimming
C8_ReleasedAfterTransportFailure ==
  [][TransportFailureSettles =>
       (~isLoading' /\ (sendDisabled' <=> Trim(inputValue') = << >>))]_vars

\* the rejected send has settled and the text typed meanwhile can be sent
C8_Witness ==
  /\ widget = Main
  /\ Constructed
  /\ chats = << >>
  /\ ~isLoading
  /\ Last(messages).content = OfflineNotice(ErrFetch)
  /\ Trim(inputValue) # << >>
  /\ ~sendDisabled

\* C9 as stated: one probe at startup and one more after every completed
\* exchange, failed or not
C9_Original ==
  (widget = Main /\ Constructed /\ chats = << >>) =>
    Len(probes) = 1 + chatPosts

\* assistant entries after the greeting that are replies, not failure notices
Replies ==
  {k \in 2..Len(messages) :
     messages[k].role = "bot" /\ ~IsFailureNotice(messages[k])}

\* C9: CAChatbotWidget has issued one health probe at startup and one more
\* for each exchange that ended with a reply appended; a failed exchange
\* issues none
C9_ProbeAfterReplyOnly ==
  (widget = Main /\ Constructed) => Len(probes) = 1 + Cardinality(Replies)

\* two exchanges have settled, only one with a reply, and two probes were issued
C9_Witness ==
  /\ widget = Main
  /\ chats = << >>
  /\ chatPosts = 2
  /\ Cardinality(Replies) = 1
  /\ Len(probes) = 2

\* the body reports a healthy service
Healthy(data) == "status" \in DOMAIN data /\ data.status = "healthy"

\* C10: the step in which a health probe completes sets the connection
\* status to Online if the response is 2xx and its parsed body has status
\* "healthy", and to Offline on every other outcome (rejected fetch,
\* non-2xx, unparsable body, any other body)
C10_OnlineIffHealthy ==
  [][\A i \in DOMAIN probes :
       (probes[i] = "pending" /\ probes'[i] = "done") =>
         /\ connectionStatus' \in {"Online", "Offline"}
         /\ \A ok \in BOOLEAN, data \in HealthBodies :
              ProbeJson(i, ok, data) =>
                (connectionStatus' = "Online" <=> (ok /\ Healthy(data)))
         /\ connectionStatus' = "Online" =>
              \E data \in HealthBodies : ProbeJson(i, TRUE, data) /\ Healthy(data)
         /\ (ProbeFetchReject \/ ProbeJsonReject) => connectionStatus' = "Offline"]_vars

\* the startup probe got a 2xx answer with a healthy body: the status is Online
C10_Witness ==
  /\ widget = Main
  /\ chatPosts = 0
  /\ probes = <<"done">>
  /\ connectionStatus = "Online"
  /\ lastEvent = "continuation"

----------------------------------------------------------------------------
\* a step in which a call of checkAPIHealth reaches its end
ProbeCompletes ==
  \E i \in DOMAIN probes :
    /\ probes[i] = "pending"
    /\ i \in DOMAIN probes'
    /\ probes'[i] = "done"

\* a step in which checkAPIHealth is called
ProbeIssued == Len(probes') > Len(probes)

\* C11: a health probe changes only the connection status.  A step that
\* completes a probe, whatever its outcome, leaves the transcript, isLoading,
\* isOpen, webSearchEnabled and sessionId unchanged.  A step in which the
\* constructed widget issues a probe (the continuation of sendMessage that
\* appended the reply) leaves
\* isOpen, webSearchEnabled, sessionId and the connection status unchanged,
\* and the transcript gains nothing but that reply.
C11_ProbeWritesStatusOnly ==
  [][ /\ ProbeCompletes =>
           UNCHANGED <<messages, isLoading, isOpen, webSearchEnabled,
                       sessionId>>
      /\ (ProbeIssued /\ Constructed) =>
           /\ UNCHANGED <<isOpen, webSearchEnabled, sessionId,
                          connectionStatus>>
           /\ probes' = Append(probes, "pending")
           /\ Len(messages') = Len(messages) + 1
           /\ SubSeq(messages', 1, Len(messages)) = messages ]_vars

\* the startup probe has failed while the first chat request is still at its
\* fetch: the status is Offline, the widget still loading, the transcript
\* still the greeting and the user message
C11_Witness ==
  /\ widget = Main
  /\ probes = <<"done">>
  /\ connectionStatus = "Offline"
  /\ lastEvent = "continuation"
  /\ isLoading
  /\ Len(chats) = 1
  /\ chats[1].phase = "fetch"
  /\ Len(messages) = 2

----------------------------------------------------------------------------
\* C12: in CAChatbotWidget a 2xx chat response whose parsed body is an
\* object without the response field is handled like a failed request: the
\* one assistant entry appended is a failure notice, not text taken from
\* the body
C12_MalformedReplyIsFailure ==
  [][ \A i \in DOMAIN chats, data \in ChatBodies :
        ( /\ widget = Main
          /\ chats[i].phase = "json"
          /\ chats[i].ok
          /\ ~ThrowsOnRead(data)
          /\ "response" \notin DOMAIN data
          /\ ChatJson(i, data) )
        => /\ Len(messages') = Len(messages) + 1
           /\ IsFailureNotice(Last(messages')) ]_vars

----------------------------------------------------------------------------
\* the smaller of two numbers
Min(a, b) == IF a < b THEN a ELSE b

\* C13: for every list of sources returned with a successful chat response,
\* the sources displayed with the assistant message are exactly the first
\* min(3, length) sources of the list, in their original order: the i-th
\* item displayed is the rendering of the i-th source supplied
C13_FirstThreeSourcesInOrder ==
  [][ \A i \in DOMAIN chats, data \in ChatBodies :
        ( /\ widget = Main
          /\ chats[i].phase = "json"
          /\ chats[i].ok
          /\ ~ThrowsOnRead(data)
          /\ "sources" \in DOMAIN data
          /\ ChatJson(i, data) )
        => LET shown == Last(messages').sources.items IN
           /\ Len(shown) = Min(3, Len(data.sources))
           /\ \A k \in 1..Len(shown) : shown[k] = SourceItem(data.sources[k]) ]_vars

\* replies with four sources and with two have both been rendered: three
\* items under the first, two under the second
C13_Witness ==
  /\ widget = Main
  /\ Len(messages) = 5
  /\ messages[3].content = <<"PAN is...">>
  /\ Len(messages[3].sources.items) = 3
  /\ messages[5].content = <<"TDS is...">>
  /\ Len(messages[5].sources.items) = 2

----------------------------------------------------------------------------
\* C14: toggleWebSearch inverts webSearchEnabled, so that two consecutive
\* toggles restore the value, and leaves the transcript, isOpen, isLoading,
\* sessionId and the connection status unchanged; no other step changes
\* the flag
C14_ToggleWebSearchInverts ==
  [][ (toggleWebSearch \/ webSearchEnabled' # webSearchEnabled)
        => /\ webSearchEnabled' = ~webSearchEnabled
           /\ UNCHANGED <<messages, isOpen, isLoading, sessionId,
                          connectionStatus>> ]_vars

\* web search was switched off while a request sent with it on is
\* outstanding and the status is Online: the widget is still loading and
\* the transcript is still the greeting and the user message
C14_Witness ==
  /\ widget = Main
  /\ lastEvent = "listener"
  /\ ~webSearchEnabled
  /\ Len(chats) = 1
  /\ chats[1].body.web_search_enabled
  /\ isLoading
  /\ isOpen
  /\ connectionStatus = "Online"
  /\ Len(messages) = 2

----------------------------------------------------------------------------
\* a step of one of the listeners that open or close a widget
OpensOrCloses ==
  \/ ClickToggle
  \/ ClickClose
  \/ EscapeKey
  \/ EmbedToggle
  \/ EmbedClose

\* C15: in both widgets openChat, closeChat and toggleChat change only
\* isOpen.  Every step that runs one of them, and every step that changes
\* isOpen, leaves the transcript, sessionId, webSearchEnabled, isLoading and
\* the connection status exactly as they were, so any sequence of opens and
\* closes does, and reopening resumes the same conversation.
C15_OpenCloseChangesOnlyIsOpen ==
  [][ (OpensOrCloses \/ isOpen' # isOpen)
        => UNCHANGED <<messages, sessionId, webSearchEnabled, isLoading,
                       connectionStatus>> ]_vars

\* the embed widget has just been closed after a complete exchange: the
\* greeting, the user message and the reply are still its transcript
C15_Witness ==
  /\ widget = Embed
  /\ ~isOpen
  /\ lastEvent = "listener"
  /\ ~isLoading
  /\ Len(messages) = 3
  /\ messages[2].role = "user"
  /\ messages[3].content = <<"GST is...">>

----------------------------------------------------------------------------
\* the number of user messages in a transcript
Users(list) == Cardinality({k \in DOMAIN list : list[k].role = "user"})

\* the number of assistant entries appended to a transcript after the greeting
Assistants(list) == Cardinality({k \in 2..Len(list) : list[k].role = "bot"})

\* C16: in every run of CAChatbotWidget the k-th assistant entry appended is
\* the outcome of the request that carried the k-th user message, and it is
\* appended after the k-th user message and before the (k+1)-th.  A user
\* message is appended only when every earlier one has its assistant entry;
\* an assistant entry is appended only by the step that settles a request,
\* that request is the latest of the k issued, its message is the k-th user
\* message, which is the last entry of the transcript, and the entry goes
\* right behind it.
C16_AssistantEntriesInSendOrder ==
  [][ widget = Main =>
        /\ Users(messages') > Users(messages) =>
             /\ Assistants(messages) = Users(messages)
             /\ Users(messages') = Users(messages) + 1
        /\ Assistants(messages') > Assistants(messages) =>
             /\ Assistants(messages') = Users(messages)
             /\ Users(messages') = Users(messages)
             /\ chatPosts = Users(messages)
             /\ \E i \in DOMAIN chats :
                  /\ chats' = Remove(chats, i)
                  /\ Last(messages).role = "user"
                  /\ Last(messages).content = chats[i].body.message
             /\ messages' = Append(messages, Last(messages'))
             /\ Last(messages').role = "bot" ]_vars

\* the second request has just settled with a failure notice after the first
\* was answered with a reply: user and assistant entries alternate
C16_Witness ==
  /\ widget = Main
  /\ chatPosts = 2
  /\ chats = << >>
  /\ Len(messages) = 5
  /\ messages[2].role = "user"
  /\ messages[3].content = <<"TDS is...">>
  /\ messages[4].role = "user"
  /\ IsFailureNotice(messages[5])

----------------------------------------------------------------------------
\* C17: no completion callback of CAChatbotWidget that has been superseded
\* by a later-issued request of the same kind writes isLoading, the
\* connection status or the transcript, so a stale callback never overwrites
\* the result of a newer one.  Requests are listed in the order they were
\* issued.  For probes the statement is taken in its weakest form: the
\* later-issued probe has already written its result.
C17_NoStaleWrite ==
  [][ widget = Main =>
        /\ \A i \in DOMAIN probes :
             ( /\ probes[i] = "pending"
               /\ i \in DOMAIN probes'
               /\ probes'[i] = "done"
               /\ \E j \in DOMAIN probes : j > i /\ probes[j] = "done" )
             => UNCHANGED connectionStatus
        /\ \A i \in DOMAIN chats :
             ( /\ chats' = Remove(chats, i)
               /\ \E j \in DOMAIN chats : j > i )
             => UNCHANGED <<isLoading, messages>> ]_vars

----------------------------------------------------------------------------
----------------------------------------------------------------------------
----------------------------------------------------------------------------
\* C20: however many times the embed script is executed on one page, at most
\* one CAEmbedWidget is constructed and the widget markup is inserted at
\* most once (counting an insertion still waiting for DOMContentLoaded);
\* every execution after the first returns without creating or changing
\* anything
C20_EmbedConstructedOnce ==
  /\ [](/\ embedWidgets <= 1
        /\ widgetMarkup + createPending <= 1)
  /\ [][ (scriptRuns' > scriptRuns /\ scriptRuns >= 1)
           => UNCHANGED <<CAChatbotLoaded, embedWidgets, createPending,
                          widgetMarkup, sessionId, isOpen, isLoading,
                          messages, inputValue, sendDisabled, chats>> ]_vars

\* the script has run a second time while the widget was open with a
\* conversation in it: still one widget, one copy of the markup
C20_Witness ==
  /\ widget = Embed
  /\ scriptRuns = 2
  /\ lastEvent = "script"
  /\ embedWidgets = 1
  /\ widgetMarkup = 1
  /\ isOpen
  /\ Len(messages) = 3

----------------------------------------------------------------------------
\* a step in which a send is admitted: a new call of sendMessage is suspended
SendAdmitted == Len(chats') = Len(chats) + 1

\* C21: the web_search_enabled value carried by each chat request of
\* CAChatbotWidget is webSearchEnabled as it was when the send was admitted.
\* Toggling web search while a request is outstanding does not change that
\* request, nor does any other step before it settles: the toggle shows
\* only in the next request.
C21_WebSearchFlagFixedAtSend ==
  [][ widget = Main =>
        /\ SendAdmitted =>
             Last(chats').body.web_search_enabled = webSearchEnabled
        /\ \A i \in DOMAIN chats :
             (Len(chats') = Len(chats)) => chats'[i].body = chats[i].body
        /\ toggleWebSearch => UNCHANGED chats ]_vars

\* the second request was sent with web search off, after the flag was
\* switched off, and the flag was switched on again while it is outstanding
C21_Witness ==
  /\ widget = Main
  /\ chatPosts = 2
  /\ Len(chats) = 1
  /\ ~chats[1].body.web_search_enabled
  /\ webSearchEnabled
  /\ lastEvent = "listener"

----------------------------------------------------------------------------
\* C22: for a non-2xx chat response whose parsed body carries a detail
\* string, the failure notice CAChatbotWidget appends contains that text
\* verbatim; when no detail is present (none, an empty one, or a body that
\* is null) the notice carries a generic text instead
C22_DetailQuotedVerbatim ==
  [][ \A i \in DOMAIN chats, data \in ChatBodies :
        ( /\ widget = Main
          /\ chats[i].phase = "json"
          /\ ~chats[i].ok
          /\ ChatJson(i, data) )
        => LET notice == Last(messages') IN
           /\ Len(messages') = Len(messages) + 1
           /\ notice.role = "bot"
           /\ IF "detail" \in DOMAIN data /\ data.detail # ""
                THEN notice.content =
                       <<"Sorry, I encountered an error: ", data.detail>>
                ELSE notice.content \in
                       { <<"Sorry, I encountered an error: ", "Unknown error">>,
                         <<"I'm currently offline. Please try again later. (",
                           "Cannot read properties of null", ")">> } ]_vars

\* the server's detail text is the second part of the notice just appended
C22_Witness ==
  /\ widget = Main
  /\ lastEvent = "continuation"
  /\ chats = << >>
  /\ Len(messages) = 3
  /\ messages[3].content =
       <<"Sorry, I encountered an error: ", "Error processing request">>

----------------------------------------------------------------------------
\* call i of CAChatbotWidget reads the 2xx body `data`, which has a sources
\* list, and renders the reply
ReplyWithSources(i, data) ==
  /\ widget = Main
  /\ chats[i].phase = "json"
  /\ chats[i].ok
  /\ ~ThrowsOnRead(data)
  /\ "sources" \in DOMAIN data
  /\ ChatJson(i, data)

\* C23: among the displayed sources of an assistant message, every source
\* of kind web is rendered as a link (title + url) and every source of any
\* other kind as a label with no link
C23_Original ==
  [][ \A i \in DOMAIN chats, data \in ChatBodies :
        ReplyWithSources(i, data) =>
          LET shown == Last(messages').sources.items IN
          \A k \in 1..Len(shown) :
            IF Get(data.sources[k], "type") = "web"
              THEN /\ shown[k].link
                   /\ shown[k].href = Get(data.sources[k], "url")
                   /\ shown[k].text = Get(data.sources[k], "title")
              ELSE ~shown[k].link ]_vars

\* C23, amended: a displayed source is rendered as a link (title + url)
\* exactly when it is of kind web and has a url; every other displayed
\* source, of another kind or a web source without a url, is rendered as a
\* label with no link, the label being its source property or "Document"
C23_WebSourceWithUrlIsLink ==
  [][ \A i \in DOMAIN chats, data \in ChatBodies :
        ReplyWithSources(i, data) =>
          LET shown == Last(messages').sources.items IN
          \A k \in 1..Len(shown) :
            LET source == data.sources[k] IN
            IF Get(source, "type") = "web" /\ "url" \in DOMAIN source
                 /\ source.url # ""
              THEN /\ shown[k].link
                   /\ shown[k].href = source.url
                   /\ shown[k].text = Get(source, "title")
              ELSE /\ ~shown[k].link
                   /\ shown[k].href = ""
                   /\ shown[k].text =
                        IF "source" \in DOMAIN source /\ source.source # ""
                          THEN source.source ELSE "Document" ]_vars

\* a reply shows a web source with a url as a link next to a web source
\* without one, which is a label reading Document
C23_Witness ==
  /\ widget = Main
  /\ Len(messages) >= 3
  /\ messages[3].content = <<"PAN is...">>
  /\ messages[3].sources.items[1].link
  /\ messages[3].sources.items[1].href = "https://gst.gov.in"
  /\ ~messages[3].sources.items[3].link
  /\ messages[3].sources.items[3].text = "Document"

----------------------------------------------------------------------------
\* C24: a successful chat response whose sources list is empty or absent
\* produces an assistant message with no sources block; the block is
\* rendered exactly when the response supplies at least one source
C24_SourcesBlockIffAnySource ==
  [][ \A i \in DOMAIN chats, data \in ChatBodies :
        ( /\ widget = Main
          /\ chats[i].phase = "json"
          /\ chats[i].ok
          /\ ~ThrowsOnRead(data)
          /\ ChatJson(i, data) )
        => LET shown == Last(messages').sources IN
           /\ shown.block <=>
                ("sources" \in DOMAIN data /\ Len(data.sources) >= 1)
           /\ ~shown.block => shown.items = << >> ]_vars

\* a reply that came without sources stands without a block above a reply
\* that came with sources and has one
C24_Witness ==
  /\ widget = Main
  /\ Len(messages) = 5
  /\ messages[3].content = <<"GST is...">>
  /\ ~messages[3].sources.block
  /\ messages[5].content = <<"PAN is...">>
  /\ messages[5].sources.block

----------------------------------------------------------------------------
\* C25: in CAEmbedWidget, after a chat request settles with any outcome, the
\* transcript holds the user message of that send followed by exactly one
\* assistant entry; the only entry removed is the "Thinking..." placeholder
\* that the same send added, never a user message or an earlier reply
C25_EmbedRemovesOnlyPlaceholder ==
  [][ \A i \in DOMAIN chats :
        (widget = Embed /\ chats' = Remove(chats, i)) =>
          /\ Last(messages).content = Thinking
          /\ Len(messages') = Len(messages)
          /\ RemoveLastChild(messages') = RemoveLastChild(messages)
          /\ Last(messages').role = "bot"
          /\ messages'[Len(messages') - 1].role = "user"
          /\ messages'[Len(messages') - 1].content = chats[i].body.message ]_vars

----------------------------------------------------------------------------
\* C26: the widget never retries.  In every reachable state the number of
\* chat POSTs issued so far equals the number of admitted sends, which
\* equals the number of user messages in the transcript: a POST is issued
\* only by the step that admits a send and appends its user message, and no
\* failure path issues another.
C26_NoRetry ==
  /\ [](chatPosts = Users(messages))
  /\ [][ chatPosts' # chatPosts =>
           /\ lastEvent' = "sendMessage"
           /\ SendAdmitted
           /\ chatPosts' = chatPosts + 1
           /\ Users(messages') = Users(messages) + 1 ]_vars

----------------------------------------------------------------------------
\* C27: closing CAChatbotWidget (close button, toggle or Escape) while a
\* chat request is outstanding cancels nothing: the request stays
\* outstanding and the widget loading; when the request later settles in
\* the closed widget, the assistant entry is appended to the transcript and
\* isLoading is released, and the widget stays closed
C27_CloseCancelsNothing ==
  [][ widget = Main =>
        /\ (isOpen /\ ~isOpen' /\ Len(chats) >= 1) =>
             UNCHANGED <<chats, isLoading, typingShown, messages>>
        /\ \A i \in DOMAIN chats :
             (~isOpen /\ chats' = Remove(chats, i)) =>
               /\ messages' = Append(messages, Last(messages'))
               /\ Last(messages').role = "bot"
               /\ ~isLoading'
               /\ ~isOpen' ]_vars

\* the one request has just settled in the closed widget, before any probe
\* completed: user message and assistant entry are in the transcript and
\* the loading flag is released
C27_Witness ==
  /\ widget = Main
  /\ ~isOpen
  /\ ~isLoading
  /\ lastEvent = "continuation"
  /\ chats = << >>
  /\ chatPosts = 1
  /\ Len(messages) = 3
  /\ \A j \in DOMAIN probes : probes[j] = "pending"

----------------------------------------------------------------------------
\* C28: while an issued chat request has not settled, isLoading stays true
\* and every send attempt is a no-op.  No step other than the settling of
\* that request (no open, close, web-search toggle, typing, arrival of the
\* response's headers or completion of a health probe) resets isLoading,
\* issues a request or changes the transcript; so if the request never
\* settles, isLoading is true in every later state.
C28_LoadingHeldUntilSettled ==
  [][ (isLoading /\ ~ChatSettles) =>
        /\ isLoading'
        /\ Len(chats') = Len(chats)
        /\ UNCHANGED <<chatPosts, messages>> ]_vars

\* the request is still at its fetch after the web-search flag was switched,
\* text was typed, the widget was closed and the startup probe completed:
\* the widget is still loading
C28_Witness ==
  /\ widget = Main
  /\ isLoading
  /\ Len(chats) = 1
  /\ chats[1].phase = "fetch"
  /\ chats[1].body.web_search_enabled # webSearchEnabled
  /\ Trim(inputValue) # << >>
  /\ ~isOpen
  /\ probes = <<"done">>

----------------------------------------------------------------------------
\* C29: CAChatbotWidget starts closed (no interface before construction, and
\* the constructor leaves isOpen false); toggleChat always inverts isOpen;
\* closeChat always yields isOpen = false, also when the widget is closed
\* already; an Escape key press closes the widget when it is open and
\* changes nothing when it is closed
C29_OpenCloseStateMachine ==
  /\ (widget = Main => ~isOpen)
  /\ [][ /\ BootTimerFires => ~isOpen'
         /\ ClickToggle => isOpen' = ~isOpen
         /\ ClickClose => ~isOpen'
         /\ EscapeKey =>
              /\ ~isOpen'
              /\ ~isOpen =>
                   UNCHANGED <<widget, sessionId, isOpen, isLoading,
                               webSearchEnabled, inputValue, sendDisabled,
                               typingShown, messages, connectionStatus,
                               chats, chatPosts, probes, page,
                               webSearchActive>> ]_vars

\* the widget was opened, text was typed, and the widget was closed again
C29_Witness ==
  /\ widget = Main
  /\ ~isOpen
  /\ lastEvent = "listener"
  /\ Trim(inputValue) # << >>
  /\ chatPosts = 0

----------------------------------------------------------------------------
\* C30: in both widgets every chat request issued carries a message that is
\* non-empty after trimming and is the trimmed input text, identical to the
\* content of the user message that the same send appends to the
\* transcript; an admitted send also clears the input field
C30_RequestCarriesTrimmedInput ==
  [][ SendAdmitted =>
        LET body == Last(chats').body
            user == messages'[Len(messages) + 1] IN
        /\ body.message = Trim(inputValue)
        /\ Trim(body.message) # << >>
        /\ Len(messages') > Len(messages)
        /\ SubSeq(messages', 1, Len(messages)) = messages
        /\ user.role = "user"
        /\ user.content = body.message
        /\ inputValue' = << >> ]_vars

\* the embed widget has just admitted a send of " a ": the request and the
\* user message both carry "a" and the input is empty
C30_Witness ==
  /\ widget = Embed
  /\ lastEvent = "sendMessage"
  /\ Len(chats) = 1
  /\ chats[1].phase = "fetch"
  /\ chats[1].body.message = <<"a">>
  /\ messages[2].content = <<"a">>
  /\ Len(messages) = 3
  /\ inputValue = << >>


-----------------------------------------------------------------------------
\* the health probes whose fetch or json() has not settled yet
PendingProbes == {i \in DOMAIN probes : probes[i] = "pending"}

\* C31: in CAChatbotWidget at most one health probe is outstanding at any
\* time, over every interleaving of the startup probe, chat exchanges and
\* probe completions
C31_OneProbeOutstanding ==
  widget = Main => Cardinality(PendingProbes) <= 1


-----------------------------------------------------------------------------
\* C32: the connection status of CAChatbotWidget is written only by
\* health-probe completions.  Once the widget is constructed, a step that
\* changes the status completes a probe; a step that settles a chat request,
\* with a reply or with a failure notice, leaves the status as the last
\* completed probe set it.
C32_StatusWrittenByProbesOnly ==
  [][ /\ (widget = Main /\ Constructed /\ connectionStatus' # connectionStatus)
           => ProbeCompletes
      /\ (widget = Main /\ ChatSettles) => UNCHANGED connectionStatus ]_vars

\* the startup probe reported Online, then the only chat request failed: the
\* transcript ends with the failure notice and the status is still Online
C32_Witness ==
  /\ widget = Main
  /\ Constructed
  /\ chats = << >>
  /\ probes = <<"done">>
  /\ connectionStatus = "Online"
  /\ Len(messages) = 3
  /\ IsFailureNotice(messages[3])


-----------------------------------------------------------------------------
\* C33: in every state of the constructed CAChatbotWidget between callbacks
\* the send button is disabled if and only if the input is empty after
\* trimming or isLoading is true; so a click on the button and an Enter key
\* press are admitted (issue a chat request) in exactly the same states,
\* those in which the open widget shows the button enabled
C33_ButtonTracksAdmission ==
  (widget = Main /\ Constructed) =>
    /\ sendDisabled <=> (Trim(inputValue) = << >> \/ isLoading)
    /\ (ENABLED (ClickSend /\ SendAdmitted)) <=>
         (ENABLED (EnterKey /\ SendAdmitted))
    /\ chatPosts < MaxSends =>
         ((ENABLED (ClickSend /\ SendAdmitted)) <=> (isOpen /\ ~sendDisabled))

\* a request is outstanding and the user has typed the next message: the
\* text alone would enable the button, isLoading keeps it disabled
C33_Witness ==
  /\ widget = Main
  /\ Constructed
  /\ isLoading
  /\ Len(chats) = 1
  /\ Trim(inputValue) # << >>
  /\ sendDisabled


-----------------------------------------------------------------------------
\* C34: in every state of the constructed CAChatbotWidget between callbacks
\* the typing indicator is visible if and only if isLoading is true
C34_TypingTracksLoading ==
  (widget = Main /\ Constructed) => (typingShown <=> isLoading)

\* the second exchange is awaiting its body: the indicator, hidden when the
\* first exchange settled, is shown again
C34_Witness ==
  /\ widget = Main
  /\ Constructed
  /\ chatPosts = 2
  /\ Len(chats) = 1
  /\ chats[1].phase = "json"
  /\ typingShown
  /\ isLoading


-----------------------------------------------------------------------------
\* C35: in every state of CAChatbotWidget, from construction on, the
\* web-search toggle button carries the 'active' highlight if and only if
\* webSearchEnabled is true
C35_HighlightTracksFlag ==
  (widget = Main /\ Constructed) => (webSearchActive <=> webSearchEnabled)


-----------------------------------------------------------------------------
\* The bootstrap's scheduling: the browser dispatches DOMContentLoaded to a
\* document that is still loading, and a timer that was started fires.
BootSpec == Spec /\ WF_vars(DOMContentLoaded) /\ WF_vars(BootTimerFires)

\* C36: whenever ca-chatbot-widget.js has been evaluated on a page, a
\* CAChatbotWidget is eventually constructed, whether the script was
\* evaluated before or after the page's DOMContentLoaded event
C36_EventuallyConstructed ==
  (widget = Main /\ scriptRuns >= 1) ~> Constructed


-----------------------------------------------------------------------------
\* a step of one of the listeners that CAEmbedWidget.attachEvents registers
EmbedListenerRuns ==
  \/ EmbedToggle
  \/ EmbedClose
  \/ EmbedInputEvent
  \/ EmbedClickSend
  \/ EmbedEnterKey

\* C37: on the first execution of the embed script CAEmbedWidget.create runs
\* exactly once, whether the document is still loading or ready.  The first
\* execution inserts the markup at once when the document is ready and
\* leaves exactly one call pending when it is loading; from then on exactly
\* one call of create is pending or done, and it is eventually done.  The
\* listeners of attachEvents run only once the markup is inserted.
C37_CreateOnceThenHandlers ==
  /\ []((widget = Embed /\ scriptRuns >= 1) =>
          widgetMarkup + createPending = 1)
  /\ [][ /\ (ExecuteEmbedScript /\ scriptRuns = 0) =>
              IF readyState = "loading"
                THEN widgetMarkup' = 0 /\ createPending' = 1
                ELSE widgetMarkup' = 1 /\ createPending' = 0
         /\ EmbedListenerRuns => widgetMarkup = 1 ]_vars
  /\ (widget = Embed /\ scriptRuns >= 1) ~>
       (widgetMarkup = 1 /\ createPending = 0)

\* the script ran while the document was loading; DOMContentLoaded has since
\* run the deferred create, and the toggle listener has opened the widget
C37_Witness ==
  /\ widget = Embed
  /\ scriptRuns = 1
  /\ readyState = "complete"
  /\ embedWidgets = 1
  /\ widgetMarkup = 1
  /\ createPending = 0
  /\ isOpen
  /\ messages = <<Greeting>>

====
